---- MODULE Spec2Model ----
(***************************************************************************)
(* Model of the multi-photo feature aggregation of building_estimator:    *)
(* PhotoAnalyzer.analyze_multiple (src/core/photo_analyzer.py) together    *)
(* with the per-image PhotoAnalyzer.analyze whose reports it merges,       *)
(* of AppState (src/ui/app_state.py)                                       *)
(* and of the quantity calculations of src/utils/calculations.py.          *)
(*                                                                         *)
(* Python floats are modelled as exact rationals [num, den] in lowest      *)
(* terms, except the per-category confidences, which are IEEE 754 doubles; *)
(* Python strings are TLA+ strings; Python None is the value None.         *)
(* A str field that holds a JSON document (raw_response) is modelled as a  *)
(* sequence: <<>> is the empty string, <<"json", d>> the text that         *)
(* json.loads turns into d, <<"text", t>> a text that is not JSON.         *)
(***************************************************************************)
EXTENDS Integers, Sequences, FiniteSets, TLC

\* Largest number of image paths handed to analyze_multiple.
MaxImages == 3

\* Python's None (the default of PhotoAnalysisResult.error).
None == "<None>"

-----------------------------------------------------------------------------
(* Float arithmetic, as exact rationals.                                   *)

RECURSIVE GCD(_, _)
GCD(a, b) == IF b = 0 THEN a ELSE GCD(b, a % b)

\* The float n/d (d > 0), in lowest terms.
Rat(n, d) ==
    LET g == GCD(IF n < 0 THEN -n ELSE n, d) IN [num |-> n \div g, den |-> d \div g]

RatAdd(x, y) == Rat(x.num * y.den + y.num * x.den, x.den * y.den)
RatMul(x, y) == Rat(x.num * y.num, x.den * y.den)
RatDivInt(x, n) == Rat(x.num, x.den * n)
RatLess(x, y) == x.num * y.den < y.num * x.den
RatLeq(x, y) == x.num * y.den <= y.num * x.den
RatMin(x, y) == IF RatLess(y, x) THEN y ELSE x

One == Rat(1, 1)
Zero == Rat(0, 1)
Half == Rat(1, 2)

RatSub(x, y) == Rat(x.num * y.den - y.num * x.den, x.den * y.den)

\* The float of an int.
FromInt(n) == Rat(n, 1)

\* int(x): truncation toward zero.
int(x) == IF x.num >= 0 THEN x.num \div x.den ELSE -((-x.num) \div x.den)

\* math.ceil(x)
Ceil(x) == -((-x.num) \div x.den)

\* The non-negative integer whose square is n (n a perfect square).
ISqrt(n) == CHOOSE k \in 0..n : k * k = n

\* math.sqrt(x), for an x whose root is rational.
Sqrt(x) == Rat(ISqrt(x.num), ISqrt(x.den))

RECURSIVE RatSum(_)
RatSum(s) == IF s = <<>> THEN Zero ELSE RatAdd(Head(s), RatSum(Tail(s)))

-----------------------------------------------------------------------------
(* Float arithmetic, as IEEE 754 doubles, where rounding decides a claim:  *)
(* the per-category confidences.  A double x that is 0 or lies in          *)
(* [2^-4, 8) is a multiple of 2^-56; it is the record [hi, lo] with        *)
(* x * 2^56 = hi * 2^28 + lo and lo < 2^28.  Every operation rounds its    *)
(* exact result to 53 significant bits, ties to even.                      *)

Limb == 2^28

\* The number of bits of the natural number n.
RECURSIVE BitLen(_)
BitLen(n) ==
    IF n = 0 THEN 0
    ELSE IF n >= 2^16 THEN 16 + BitLen(n \div 2^16)
    ELSE IF n >= 2^4 THEN 4 + BitLen(n \div 2^4)
    ELSE 1 + BitLen(n \div 2)

\* The double nearest to (hi * 2^28 + lo + rem / den) * 2^-56, where
\* lo < 2^28 and 0 <= rem < den.
RoundToDouble(hi, lo, rem, den) ==
    LET unit == IF hi < 2^25 THEN 1 ELSE 2^(BitLen(hi) - 25)
        below == lo % unit
        down == lo - below
        twice == 2 * (below * den + rem)
        up == twice > unit * den \/ (twice = unit * den /\ (down \div unit) % 2 = 1)
    IN  IF ~up THEN [hi |-> hi, lo |-> down]
        ELSE IF down + unit = Limb THEN [hi |-> hi + 1, lo |-> 0]
        ELSE [hi |-> hi, lo |-> down + unit]

\* The four 14-bit digits of (r / den) * 2^56 for r < den, most significant
\* first, followed by the remainder.
RECURSIVE Digits(_, _, _)
Digits(r, den, n) ==
    IF n = 0 THEN <<r>>
    ELSE <<(r * 2^14) \div den>> \o Digits((r * 2^14) % den, den, n - 1)

\* float(x) of a decimal literal: the double nearest to the rational x.
Double(x) ==
    LET d == Digits(x.num % x.den, x.den, 4)
    IN  RoundToDouble((x.num \div x.den) * Limb + d[1] * 2^14 + d[2],
                      d[3] * 2^14 + d[4], d[5], x.den)

\* 0.0
DoubleZero == Double(Zero)

\* x + y
DoubleAdd(x, y) ==
    LET lo == x.lo + y.lo
    IN  RoundToDouble(x.hi + y.hi + lo \div Limb, lo % Limb, 0, 1)

\* x / n for an int n in 1..7
DoubleDivInt(x, n) ==
    LET low == (x.hi % n) * Limb + x.lo
    IN  RoundToDouble(x.hi \div n, low \div n, low % n, n)

\* x <= y
DoubleLeq(x, y) == x.hi < y.hi \/ (x.hi = y.hi /\ x.lo <= y.lo)

\* The sum of a sequence of doubles, without rounding; hi may exceed 2^28.
RECURSIVE ExactSum(_)
ExactSum(s) ==
    IF s = <<>> THEN DoubleZero
    ELSE LET rest == ExactSum(Tail(s))
             lo == Head(s).lo + rest.lo
         IN  [hi |-> Head(s).hi + rest.hi + lo \div Limb, lo |-> lo % Limb]

\* The sum of the first n doubles of s, each addition rounded.
RECURSIVE RoundedSum(_, _)
RoundedSum(s, n) ==
    IF n = 0 THEN DoubleZero ELSE DoubleAdd(RoundedSum(s, n - 1), s[n])

\* How the interpreter's sum() adds floats: CPython up to 3.11 rounds every
\* addition; CPython from 3.12 on carries the rounding errors along
\* (Neumaier) and so returns the exact sum rounded once.
Summations == {"rounded", "compensated"}

\* sum(s) of a sequence of doubles
DoubleSum(s, summation) ==
    IF summation = "rounded"
    THEN RoundedSum(s, Len(s))
    ELSE LET exact == ExactSum(s) IN RoundToDouble(exact.hi, exact.lo, 0, 1)

-----------------------------------------------------------------------------
(* Python built-ins used by the aggregation.                               *)

\* dict.get(k, default)
Get(d, k, default) == IF k \in DOMAIN d THEN d[k] ELSE default

\* [r.name for r in s]
Field(s, name) == [i \in 1..Len(s) |-> s[i][name]]

RECURSIVE Sum(_)
Sum(s) == IF s = <<>> THEN 0 ELSE Head(s) + Sum(Tail(s))

\* max() over a non-empty sequence of ints
Max(s) == CHOOSE m \in {s[i] : i \in 1..Len(s)} : \A i \in 1..Len(s) : s[i] <= m

\* any() over a sequence of bools
AnyTrue(s) == \E i \in 1..Len(s) : s[i]

\* max(s, key=...): the FIRST element whose key is maximal; keys[i] is the
\* (numeric) key of s[i]
MaxByKey(s, keys) ==
    LET i == CHOOSE i \in 1..Len(s) :
                 /\ \A j \in 1..Len(s) : ~RatLess(keys[i], keys[j])
                 /\ \A j \in 1..(i - 1) : RatLess(keys[j], keys[i])
    IN  s[i]

\* Mutant: max(a, b) without the floor a.
MaxOfTwoSecond(a, b) == b

\* max(a, b) of two ints
MaxOfTwo(a, b) == IF a >= b THEN a ELSE b

UpperCase == "ABCDEFGHIJKLMNOPQRSTUVWXYZ"
LowerCase == "abcdefghijklmnopqrstuvwxyz"

\* c.lower() of the one-character string c
LowerChar(c) ==
    IF \E i \in 1..Len(UpperCase) : SubSeq(UpperCase, i, i) = c
    THEN LET i == CHOOSE i \in 1..Len(UpperCase) : SubSeq(UpperCase, i, i) = c
         IN  SubSeq(LowerCase, i, i)
    ELSE c

\* Mutant: str.lower() that leaves the string as it is.
LowerUnchanged(s) == s

\* str.lower()
RECURSIVE Lower(_)
Lower(s) ==
    IF Len(s) = 0 THEN s ELSE LowerChar(SubSeq(s, 1, 1)) \o Lower(SubSeq(s, 2, Len(s)))

\* An optional argument: <<>> when the caller leaves it at its default of
\* None, <<v>> when the caller supplies v.
NotSupplied == <<>>
Supplied(v) == <<v>>

\* x or default, for an optional number x
Or(x, default) == IF x # NotSupplied /\ x[1] # 0 THEN x[1] ELSE default

\* next((r.detail for r in s if r.flag), default)
NextWith(s, flag, detail, default) ==
    LET hits == SelectSeq(s, LAMBDA r : r[flag])
    IN  IF hits = <<>> THEN default ELSE Head(hits)[detail]

\* The elements of a sequence, as a set (set.update).
Range(s) == {s[i] : i \in 1..Len(s)}

\* list(a_set): the elements once each, in an order the set's hashing decides.
ListsOfSet(S) ==
    {s \in [1..Cardinality(S) -> S] : \A i, j \in 1..Cardinality(S) : s[i] = s[j] => i = j}

\* " | ".join(s)
RECURSIVE Join(_, _)
Join(sep, s) ==
    IF s = <<>> THEN ""
    ELSE IF Len(s) = 1 THEN s[1]
    ELSE s[1] \o sep \o Join(sep, Tail(s))

-----------------------------------------------------------------------------
(* The report type.                                                        *)

\* PhotoAnalysisResult(): every field at its dataclass default.
PhotoAnalysisResult ==
    [ building_type |-> "Unknown", architectural_style |-> "Unknown",
      estimated_age |-> "Unknown", condition |-> "Unknown", stories |-> 1,
      roof_style |-> "Unknown", roof_material |-> "Unknown",
      roof_condition |-> "Unknown", has_gutters |-> FALSE, has_chimney |-> FALSE,
      primary_exterior |-> "Unknown", secondary_exterior |-> "None",
      exterior_color |-> "Unknown",
      window_count |-> 0, window_style |-> "Unknown", window_material |-> "Unknown",
      estimated_window_size |-> "3x4 ft",
      door_count |-> 0, entry_door_material |-> "Unknown", has_storm_door |-> FALSE,
      estimated_door_size |-> "3x7 ft",
      has_garage |-> FALSE, garage_type |-> "None", garage_doors |-> 0,
      garage_door_width |-> "Unknown",
      has_porch |-> FALSE, porch_type |-> "None",
      has_deck |-> FALSE, deck_material |-> "None",
      has_dormers |-> FALSE, dormer_count |-> 0,
      special_features |-> <<>>,
      field_confidence |-> <<>>, overall_confidence |-> Half,
      analysis_notes |-> "",
      photo_quality |-> "medium", raw_response |-> <<>>, error |-> None ]

confidence_fields ==
    <<"building", "roof", "exterior", "windows", "doors", "garage", "features">>

-----------------------------------------------------------------------------
(* The JSON documents the vision service returns (ANALYSIS_PROMPT schema). *)
(* A document is fixed by three choices: the confidence the service        *)
(* states, the look of the building (categorical values, counts, notes)    *)
(* and the features it saw (presence flags and their detail fields).       *)

Confidences == {Rat(6, 10), Rat(10, 10)}

\* The <<look, seen>> pairs of the photos that are taken.
Views ==
    {<<"front", "garage">>, <<"front", "porch">>, <<"rear", "bare">>, <<"rear", "deck">>}

Building(look) ==
    IF look = "front"
    THEN [type |-> "Single Family", architectural_style |-> "Ranch",
          estimated_decade |-> "1990s", condition |-> "Good", stories |-> 1]
    ELSE [type |-> "Unknown", architectural_style |-> "Colonial",
          estimated_decade |-> "Pre-1950", condition |-> "Fair", stories |-> 2]

Roof(look, seen) ==
    IF look = "front"
    THEN [style |-> "Gable", material |-> "Asphalt Shingles", condition |-> "Good",
          has_gutters |-> (seen = "garage"),
          has_chimney |-> (seen \in {"garage", "porch"})]
    ELSE [style |-> "Hip", material |-> "Slate", condition |-> "Poor",
          has_gutters |-> (seen = "garage"),
          has_chimney |-> (seen \in {"garage", "porch"})]

Exterior(look) ==
    IF look = "front"
    THEN [primary_material |-> "Vinyl Siding", secondary_material |-> "None",
          primary_color |-> "White"]
    ELSE [primary_material |-> "Brick", secondary_material |-> "Stone Accent",
          primary_color |-> "Red"]

Windows(look) ==
    IF look = "front"
    THEN [count |-> 5, style |-> "Double-Hung", frame_material |-> "Vinyl",
          estimated_size |-> "3x4 ft"]
    ELSE [count |-> 7, style |-> "Casement", frame_material |-> "Wood",
          estimated_size |-> "2x3 ft"]

Doors(look, seen) ==
    IF look = "front"
    THEN [entry_count |-> 1, entry_material |-> "Steel",
          has_storm_door |-> (seen # "bare"), estimated_size |-> "3x7 ft"]
    ELSE [entry_count |-> 2, entry_material |-> "Wood",
          has_storm_door |-> (seen # "bare"), estimated_size |-> "3x8 ft"]

\* "porch" carries a garage type although no garage is present.
Garage(seen) ==
    CASE seen = "bare"   -> [present |-> FALSE, type |-> "None", door_count |-> 0,
                             door_width |-> "Unknown"]
      [] seen = "garage" -> [present |-> TRUE, type |-> "Attached", door_count |-> 2,
                             door_width |-> "Double"]
      [] seen = "porch"  -> [present |-> FALSE, type |-> "Detached", door_count |-> 1,
                             door_width |-> "Single"]
      [] seen = "deck"   -> [present |-> TRUE, type |-> "Carport", door_count |-> 0,
                             door_width |-> "Unknown"]

\* "garage" carries a porch type and a deck material although neither is present.
Features(look, seen) ==
    LET other == IF look = "front" THEN <<"Skylight", "Skylight">>
                 ELSE <<"skylight", "Skylight">>
    IN
    CASE seen = "bare"   -> [has_porch |-> FALSE, porch_type |-> "None",
                             has_deck |-> FALSE, deck_material |-> "None",
                             has_dormers |-> FALSE, dormer_count |-> 0,
                             other_features |-> other]
      [] seen = "garage" -> [has_porch |-> FALSE, porch_type |-> "Open",
                             has_deck |-> FALSE, deck_material |-> "Unknown",
                             has_dormers |-> FALSE, dormer_count |-> 0,
                             other_features |-> other]
      [] seen = "porch"  -> [has_porch |-> TRUE, porch_type |-> "Covered",
                             has_deck |-> FALSE, deck_material |-> "None",
                             has_dormers |-> TRUE, dormer_count |-> 1,
                             other_features |-> other]
      [] seen = "deck"   -> [has_porch |-> FALSE, porch_type |-> "None",
                             has_deck |-> TRUE, deck_material |-> "Wood",
                             has_dormers |-> TRUE, dormer_count |-> 2,
                             other_features |-> other]

Confidence(look, overall) ==
    IF look = "front"
    THEN [building |-> Double(Rat(8, 10)), roof |-> Double(Rat(6, 10)),
          exterior |-> Double(Rat(9, 10)), windows |-> Double(Rat(7, 10)),
          doors |-> Double(Rat(5, 10)), garage |-> Double(Rat(4, 10)),
          features |-> Double(Rat(3, 10)), overall |-> overall]
    ELSE [building |-> Double(Rat(4, 10)), roof |-> Double(Rat(9, 10)),
          exterior |-> Double(Rat(9, 10)), windows |-> Double(Rat(2, 10)),
          doors |-> Double(Rat(10, 10)), garage |-> Double(Rat(0, 10)),
          features |-> Double(Rat(6, 10)), overall |-> overall]

\* The service's word for the quality of the photo; "blurry" and "excellent"
\* are not among the words the aggregation ranks.
PhotoQuality(look, seen) ==
    CASE <<look, seen>> = <<"front", "garage">> -> "low"
      [] <<look, seen>> = <<"front", "porch">>  -> "blurry"
      [] <<look, seen>> = <<"rear", "deck">>    -> "excellent"
      [] OTHER                                  -> "high"

\* A complete document.
Document(overall, look, seen) ==
    [ building |-> Building(look), roof |-> Roof(look, seen),
      exterior |-> Exterior(look), windows |-> Windows(look),
      doors |-> Doors(look, seen), garage |-> Garage(seen),
      features |-> Features(look, seen), confidence |-> Confidence(look, overall),
      photo_quality |-> PhotoQuality(look, seen),
      analysis_notes |-> IF look = "front" THEN "trees hide the left side"
                         ELSE "rear elevation" ]

\* The JSON object {}: no section is present.
EmptyDocument == <<>>

Documents ==
    {Document(c, v[1], v[2]) : c \in Confidences, v \in Views}
        \cup {EmptyDocument}

-----------------------------------------------------------------------------
(* PhotoAnalyzer._parse_structured_response and PhotoAnalyzer.analyze.     *)

ParseStructuredResponse(data) ==
    LET building   == Get(data, "building", <<>>)
        roof       == Get(data, "roof", <<>>)
        exterior   == Get(data, "exterior", <<>>)
        windows    == Get(data, "windows", <<>>)
        doors      == Get(data, "doors", <<>>)
        garage     == Get(data, "garage", <<>>)
        features   == Get(data, "features", <<>>)
        confidence == Get(data, "confidence", <<>>)
    IN
    [ building_type |-> Get(building, "type", "Unknown"),
      architectural_style |-> Get(building, "architectural_style", "Unknown"),
      estimated_age |-> Get(building, "estimated_decade", "Unknown"),
      condition |-> Get(building, "condition", "Unknown"),
      stories |-> Get(building, "stories", 1),
      roof_style |-> Get(roof, "style", "Unknown"),
      roof_material |-> Get(roof, "material", "Unknown"),
      roof_condition |-> Get(roof, "condition", "Unknown"),
      has_gutters |-> Get(roof, "has_gutters", FALSE),
      has_chimney |-> Get(roof, "has_chimney", FALSE),
      primary_exterior |-> Get(exterior, "primary_material", "Unknown"),
      secondary_exterior |-> Get(exterior, "secondary_material", "None"),
      exterior_color |-> Get(exterior, "primary_color", "Unknown"),
      window_count |-> Get(windows, "count", 0),
      window_style |-> Get(windows, "style", "Unknown"),
      window_material |-> Get(windows, "frame_material", "Unknown"),
      estimated_window_size |-> Get(windows, "estimated_size", "3x4 ft"),
      door_count |-> Get(doors, "entry_count", 0),
      entry_door_material |-> Get(doors, "entry_material", "Unknown"),
      has_storm_door |-> Get(doors, "has_storm_door", FALSE),
      estimated_door_size |-> Get(doors, "estimated_size", "3x7 ft"),
      has_garage |-> Get(garage, "present", FALSE),
      garage_type |-> Get(garage, "type", "None"),
      garage_doors |-> Get(garage, "door_count", 0),
      garage_door_width |-> Get(garage, "door_width", "Unknown"),
      has_porch |-> Get(features, "has_porch", FALSE),
      porch_type |-> Get(features, "porch_type", "None"),
      has_deck |-> Get(features, "has_deck", FALSE),
      deck_material |-> Get(features, "deck_material", "None"),
      has_dormers |-> Get(features, "has_dormers", FALSE),
      dormer_count |-> Get(features, "dormer_count", 0),
      special_features |-> Get(features, "other_features", <<>>),
      field_confidence |->
          [f \in Range(confidence_fields) |-> Get(confidence, f, Double(Half))],
      overall_confidence |-> Get(confidence, "overall", Half),
      analysis_notes |-> Get(data, "analysis_notes", ""),
      photo_quality |-> Get(data, "photo_quality", "medium"),
      raw_response |-> <<>>, error |-> None ]

\* JSON null, written as an object with a key no document of the service has.
JsonNull == [json_null |-> TRUE]

IsNull(v) == "json_null" \in DOMAIN v

\* The sections _parse_structured_response calls .get on.
Sections ==
    {"building", "roof", "exterior", "windows", "doors", "garage", "features",
     "confidence"}

\* _parse_structured_response raises AttributeError: data, or a section it
\* reads from data, is no object and has no .get.
ParseRaises(data) ==
    IsNull(data) \/ \E k \in Sections : IsNull(Get(data, k, <<>>))

\* An exception that leaves analyze.
Raised(exception) == [raised |-> exception]

\* What the world outside does to one analyze call of a merge: the file is
\* missing or the reply is a document.
Outcomes ==
    {[kind |-> "missing"]}
        \cup {[kind |-> "reply", raw |-> <<"json", d>>] : d \in Documents}

\* Documents that are not of the expected shape: null, and objects with a
\* null section.
MisshapenDocuments ==
    { JsonNull,
      [building |-> JsonNull],
      [Document(One, "front", "bare") EXCEPT !.confidence = JsonNull] }

\* Every outcome of one analyze call: those of Outcomes, and the service
\* call raises, the reply is not JSON, the reply is a misshapen document.
AllOutcomes ==
    Outcomes
        \cup {[kind |-> "raises", message |-> m] :
                 m \in {"Connection error.", "Rate limit exceeded."}}
        \cup {[kind |-> "reply", raw |-> <<"text", "Sorry, I cannot help with that.">>]}
        \cup {[kind |-> "reply", raw |-> <<"json", d>>] : d \in MisshapenDocuments}

\* Mutant: the outer handler catches the errors of the service call only, so
\* an exception of the parse leaves analyze.
ReplyReportNarrowExcept(raw) ==
    IF raw[1] = "json"
    THEN IF ParseRaises(raw[2])
         THEN Raised("AttributeError")
         ELSE [ParseStructuredResponse(raw[2]) EXCEPT !.raw_response = raw]
    ELSE [PhotoAnalysisResult EXCEPT
            !.raw_response = raw,
            !.error = "Failed to parse API response: Expecting value: line 1 column 1 (char 0)"]

\* The report of analyze once the service has replied with the text raw.
ReplyReport(raw) ==
    IF raw[1] = "json"
    THEN IF ParseRaises(raw[2])
         THEN [PhotoAnalysisResult EXCEPT
                 !.raw_response = raw,
                 !.error = "API error: 'NoneType' object has no attribute 'get'"]
         ELSE [ParseStructuredResponse(raw[2]) EXCEPT !.raw_response = raw]
    ELSE [PhotoAnalysisResult EXCEPT
            !.raw_response = raw,
            !.error = "Failed to parse API response: Expecting value: line 1 column 1 (char 0)"]

\* analyze(image_path) of an analyzer whose client is set iff has_client.
Analyze(has_client, image_path, outcome) ==
    IF ~has_client
    THEN [PhotoAnalysisResult EXCEPT !.error =
            "OpenAI API key not configured. Set OPENAI_API_KEY environment variable."]
    ELSE IF outcome.kind = "missing"
    THEN [PhotoAnalysisResult EXCEPT !.error = "Image file not found: " \o image_path]
    ELSE IF outcome.kind = "raises"
    THEN [PhotoAnalysisResult EXCEPT !.error = "API error: " \o outcome.message]
    ELSE ReplyReport(outcome.raw)

-----------------------------------------------------------------------------
(* PhotoAnalyzer.analyze_multiple: the merge of the per-image reports.     *)

\* Mutant: the filter forgotten, every report is taken as valid.
ValidResultsUnfiltered(results) == results

\* valid_results = [r for r in results if r.error is None]
ValidResults(results) == SelectSeq(results, LAMBDA r : r.error = None)

\* Mutant: the last report is returned instead of the first.
LastError(results) == results[Len(results)]

\* Mutant: a silent default report instead of the first error.
SilentDefault(results) == PhotoAnalysisResult

\* The return when no report is valid: the first report.
FirstError(results) == results[1]

\* Mutant: the default report is returned without its error set.
NoImagesUnset == PhotoAnalysisResult

\* The return for an empty list of paths.
NoImages == [PhotoAnalysisResult EXCEPT !.error = "No images provided"]

\* Mutant: among equally confident reports the last one wins.
BestLast(valid) ==
    LET i == CHOOSE i \in 1..Len(valid) :
                 /\ \A j \in 1..Len(valid) :
                        ~RatLess(valid[i].overall_confidence, valid[j].overall_confidence)
                 /\ \A j \in (i + 1)..Len(valid) :
                        RatLess(valid[j].overall_confidence, valid[i].overall_confidence)
    IN  valid[i]

\* best = max(valid_results, key=lambda r: r.overall_confidence)
Best(valid) ==
    MaxByKey(valid, Field(valid, "overall_confidence"))

\* Mutant: the flag is taken from the best report alone.
AnyOfBest(valid, flag) == Best(valid)[flag]

\* any(r.flag for r in valid_results)
AnyOf(valid, flag) == AnyTrue(Field(valid, flag))

\* sum(r.count for r in valid_results)
SumOf(valid, count) == Sum(Field(valid, count))

\* Mutant: a maxed count is summed like the others.
MaxOfSummed(valid, count) == Sum(Field(valid, count))

\* max(r.count for r in valid_results)
MaxOf(valid, count) == Max(Field(valid, count))

\* Mutant: the detail is taken from the best report whether or not it saw the feature.
ConditionalBest(valid, best, flag, detail) == best[detail]

\* Mutant: the fallback is "Unknown", a value no report need carry.
ConditionalUnknown(valid, best, flag, detail) ==
    IF best[flag] THEN best[detail] ELSE NextWith(valid, flag, detail, "Unknown")

\* best.detail if best.flag else next((r.detail for r in valid_results if r.flag), "None")
Conditional(valid, best, flag, detail) ==
    IF best[flag] THEN best[detail] ELSE NextWith(valid, flag, detail, "None")

\* Mutant: only the features of the best report are kept.
AllFeaturesOfBest(valid) == Range(Best(valid).special_features)

\* all_features: the union of every valid report's special_features
AllFeatures(valid) == UNION {Range(valid[i].special_features) : i \in 1..Len(valid)}

\* combined_confidence[field] = sum(values) / len(values)
CombinedConfidence(valid, summation) ==
    [f \in Range(confidence_fields) |->
        LET values == [i \in 1..Len(valid) |->
                          Get(valid[i].field_confidence, f, Double(Half))]
        IN  DoubleDivInt(DoubleSum(values, summation), Len(valid))]

\* Mutant: the boost counts every valid report, not every report after the first.
OverallConfidenceBoostAll(valid) ==
    LET avg_confidence == RatDivInt(RatSum(Field(valid, "overall_confidence")), Len(valid))
        boost == RatAdd(One, RatMul(Rat(1, 10), Rat(Len(valid), 1)))
    IN  RatMin(One, RatMul(avg_confidence, boost))

\* Mutant: the boosted mean is not clamped.
OverallConfidenceUnclamped(valid) ==
    LET avg_confidence == RatDivInt(RatSum(Field(valid, "overall_confidence")), Len(valid))
        boost == RatAdd(One, RatMul(Rat(1, 10), Rat(Len(valid) - 1, 1)))
    IN  RatMul(avg_confidence, boost)

\* min(1.0, avg_confidence * (1 + 0.1 * (len(valid_results) - 1)))
OverallConfidence(valid) ==
    LET avg_confidence == RatDivInt(RatSum(Field(valid, "overall_confidence")), Len(valid))
        boost == RatAdd(One, RatMul(Rat(1, 10), Rat(Len(valid) - 1, 1)))
    IN  RatMin(One, RatMul(avg_confidence, boost))

\* " | ".join(notes) if notes else "", notes the non-empty analysis_notes
CombinedNotes(valid) ==
    LET notes == SelectSeq(Field(valid, "analysis_notes"), LAMBDA n : n # "")
    IN  IF notes = <<>> THEN "" ELSE Join(" | ", notes)

\* quality_order.get(q, 0)
quality_order(q) ==
    CASE q = "high" -> 3 [] q = "medium" -> 2 [] q = "low" -> 1 [] OTHER -> 0

\* Mutant: among equally ranked qualities the last one wins.
BestQualityLast(valid) ==
    LET qualities == Field(valid, "photo_quality")
        i == CHOOSE i \in 1..Len(qualities) :
                 /\ \A j \in 1..Len(qualities) :
                        quality_order(qualities[j]) <= quality_order(qualities[i])
                 /\ \A j \in (i + 1)..Len(qualities) :
                        quality_order(qualities[j]) < quality_order(qualities[i])
    IN  qualities[i]

\* max((r.photo_quality for r in valid_results), key=lambda q: quality_order.get(q, 0))
BestQuality(valid) ==
    LET qualities == Field(valid, "photo_quality")
    IN  MaxByKey(qualities, [i \in 1..Len(qualities) |-> Rat(quality_order(qualities[i]), 1)])

\* The combined report of a non-empty list of valid reports; features_list is
\* list(all_features) and combined_confidence the dict of that name.
Combine(valid, features_list, combined_confidence) ==
    LET best == Best(valid) IN
    [ PhotoAnalysisResult EXCEPT
        !.building_type = best.building_type,
        !.architectural_style = best.architectural_style,
        !.estimated_age = best.estimated_age,
        !.condition = best.condition,
        !.stories = MaxOf(valid, "stories"),
        !.roof_style = best.roof_style,
        !.roof_material = best.roof_material,
        !.roof_condition = best.roof_condition,
        !.has_gutters = AnyOf(valid, "has_gutters"),
        !.has_chimney = AnyOf(valid, "has_chimney"),
        !.primary_exterior = best.primary_exterior,
        !.secondary_exterior = best.secondary_exterior,
        !.exterior_color = best.exterior_color,
        !.window_count = SumOf(valid, "window_count"),
        !.window_style = best.window_style,
        !.window_material = best.window_material,
        !.estimated_window_size = best.estimated_window_size,
        !.door_count = SumOf(valid, "door_count"),
        !.entry_door_material = best.entry_door_material,
        !.has_storm_door = AnyOf(valid, "has_storm_door"),
        !.estimated_door_size = best.estimated_door_size,
        !.has_garage = AnyOf(valid, "has_garage"),
        !.garage_type = Conditional(valid, best, "has_garage", "garage_type"),
        !.garage_doors = MaxOf(valid, "garage_doors"),
        !.garage_door_width = best.garage_door_width,
        !.has_porch = AnyOf(valid, "has_porch"),
        !.porch_type = Conditional(valid, best, "has_porch", "porch_type"),
        !.has_deck = AnyOf(valid, "has_deck"),
        !.deck_material = Conditional(valid, best, "has_deck", "deck_material"),
        !.has_dormers = AnyOf(valid, "has_dormers"),
        !.dormer_count = SumOf(valid, "dormer_count"),
        !.special_features = features_list,
        !.field_confidence = combined_confidence,
        !.overall_confidence = OverallConfidence(valid),
        !.analysis_notes = CombinedNotes(valid),
        !.photo_quality = BestQuality(valid) ]

\* Every report analyze_multiple returns for a non-empty list of per-image
\* reports on an interpreter whose sum() adds floats by summation (one report
\* per order list(all_features) can come out in).
MergedOn(summation, results) ==
    LET valid_results == ValidResults(results) IN
    IF valid_results = <<>>
    THEN {FirstError(results)}
    ELSE LET combined_confidence == CombinedConfidence(valid_results, summation)
         IN  {Combine(valid_results, fl, combined_confidence) :
                 fl \in ListsOfSet(AllFeatures(valid_results))}

\* Every report analyze_multiple can return for a non-empty list of per-image
\* reports.
Merged(results) == UNION {MergedOn(summation, results) : summation \in Summations}

-----------------------------------------------------------------------------
(* One call of analyze_multiple on an analyzer, step by step.              *)

VARIABLES
    client,        \* self.client is set (an API key was configured)
    image_paths,   \* the argument of analyze_multiple
    results,       \* the per-image reports gathered so far
    combined,      \* the returned report, None until the call returns
    pc,            \* "call", "analyze" or "done"
    call           \* one call of a function outside analyze_multiple: its
                   \* name, its arguments and, once it returned, its result

vars == <<client, image_paths, results, combined, pc, call>>

\* No function outside analyze_multiple is being called.
NoCall == [op |-> "none"]

ImagePath(i) == "photo_" \o ToString(i) \o ".jpg"

Init ==
    /\ client \in BOOLEAN
    /\ \E n \in 0..MaxImages : image_paths = [i \in 1..n |-> ImagePath(i)]
    /\ results = <<>>
    /\ combined = None
    /\ pc = "call"
    /\ call = NoCall

\* if not image_paths: return a default report with the error set
ReturnNoImages ==
    /\ pc = "call"
    /\ image_paths = <<>>
    /\ combined' = NoImages
    /\ pc' = "done"
    /\ UNCHANGED <<client, image_paths, results, call>>

\* otherwise the list comprehension over image_paths starts
StartAnalysis ==
    /\ pc = "call"
    /\ image_paths # <<>>
    /\ pc' = "analyze"
    /\ UNCHANGED <<client, image_paths, results, combined, call>>

\* results = [self.analyze(path) for path in image_paths], one path
AnalyzeNext ==
    /\ pc = "analyze"
    /\ Len(results) < Len(image_paths)
    /\ \E outcome \in Outcomes :
          results' = Append(results,
                            Analyze(client, image_paths[Len(results) + 1], outcome))
    /\ UNCHANGED <<client, image_paths, combined, pc, call>>

\* the rest of analyze_multiple, from the filter to the return
CombineResults ==
    /\ pc = "analyze"
    /\ Len(results) = Len(image_paths)
    /\ combined' \in Merged(results)
    /\ pc' = "done"
    /\ UNCHANGED <<client, image_paths, results, call>>

Next == ReturnNoImages \/ StartAnalysis \/ AnalyzeNext \/ CombineResults

Spec == Init /\ [][Next]_vars

-----------------------------------------------------------------------------
(* One call of analyze alone, on every outcome the world can produce.      *)

InitAnalyze ==
    /\ client \in BOOLEAN
    /\ image_paths = <<>>
    /\ results = <<>>
    /\ combined = None
    /\ pc = "idle"
    /\ \E i \in 1..MaxImages, outcome \in AllOutcomes :
          call = [op |-> "analyze",
                  args |-> [image_path |-> ImagePath(i), outcome |-> outcome],
                  done |-> FALSE, result |-> None]

CallAnalyze ==
    /\ call.op = "analyze"
    /\ ~call.done
    /\ call' = [call EXCEPT
                  !.done = TRUE,
                  !.result = Analyze(client, call.args.image_path, call.args.outcome)]
    /\ UNCHANGED <<client, image_paths, results, combined, pc>>

NextAnalyze == CallAnalyze

AnalyzeSpec == InitAnalyze /\ [][NextAnalyze]_vars

-----------------------------------------------------------------------------
(* The quantity calculations of src/utils/calculations.py.                 *)

\* calculate_floor_area(length, width)
calculate_floor_area(length, width) == RatMul(length, width)

\* calculate_perimeter(length, width)
calculate_perimeter(length, width) == RatMul(FromInt(2), RatAdd(length, width))

\* calculate_exterior_wall_area(length, width, wall_height, stories)
calculate_exterior_wall_area(length, width, wall_height, stories) ==
    RatMul(RatMul(calculate_perimeter(length, width), wall_height), FromInt(stories))

\* Mutant: every style that is not recognised is taken for a hip roof.
StyleFactorHipDefault(style) ==
    IF style = "gable" THEN One
    ELSE IF style = "hip" THEN Rat(112, 100)
    ELSE IF style \in {"mansard", "gambrel"} THEN Rat(13, 10)
    ELSE IF style = "shed" THEN Rat(95, 100)
    ELSE Rat(112, 100)

\* The factor the if-chain of calculate_roof_area multiplies the pitched
\* footprint by, for the lower-cased style of a roof that is not flat.
StyleFactor(style) ==
    IF style = "gable" THEN One
    ELSE IF style = "hip" THEN Rat(112, 100)
    ELSE IF style \in {"mansard", "gambrel"} THEN Rat(13, 10)
    ELSE IF style = "shed" THEN Rat(95, 100)
    ELSE One

\* math.sqrt(1 + (roof_pitch / 12) ** 2)
PitchMultiplier(roof_pitch) ==
    Sqrt(RatAdd(One, RatMul(RatDivInt(roof_pitch, 12), RatDivInt(roof_pitch, 12))))

\* calculate_roof_area(length, width, roof_style, roof_pitch)
calculate_roof_area(length, width, roof_style, roof_pitch) ==
    LET footprint == RatMul(length, width) IN
    IF Lower(roof_style) = "flat"
    THEN RatMul(footprint, Rat(110, 100))
    ELSE RatMul(RatMul(footprint, PitchMultiplier(roof_pitch)),
                StyleFactor(Lower(roof_style)))

\* Mutant: the footer volume is taken off the total.
FooterVolumeTakenOff(perimeter, footer_width, footer_depth) ==
    RatSub(Zero, RatMul(RatMul(perimeter, footer_width), footer_depth))

\* perimeter * footer_width * footer_depth
FooterVolume(perimeter, footer_width, footer_depth) ==
    RatMul(RatMul(perimeter, footer_width), footer_depth)

\* calculate_foundation_concrete(...): <<cubic yards, linear feet of footer>>
calculate_foundation_concrete(length, width, foundation_type, footer_width, footer_depth, slab_thickness) ==
    LET perimeter == calculate_perimeter(length, width)
        footer_volume == FooterVolume(perimeter, footer_width, footer_depth)
        type == Lower(foundation_type)
        total_cubic_feet ==
            IF type = "slab"
            THEN RatAdd(footer_volume, RatMul(RatMul(length, width), slab_thickness))
            ELSE IF type = "crawl"
            THEN RatAdd(footer_volume,
                        RatMul(RatMul(perimeter, FromInt(2)), Rat(67, 100)))
            ELSE IF type = "basement"
            THEN RatAdd(RatAdd(footer_volume,
                               RatMul(RatMul(perimeter, FromInt(8)), Rat(83, 100))),
                        RatMul(RatMul(length, width), slab_thickness))
            ELSE footer_volume
    IN  <<RatDivInt(total_cubic_feet, 27), perimeter>>

\* ceiling_r_defaults.get(climate_zone, 38)
CeilingRDefault(climate_zone) ==
    IF climate_zone = 1 THEN 30
    ELSE IF climate_zone \in {2, 3} THEN 38
    ELSE IF climate_zone \in 4..8 THEN 49
    ELSE 38

\* wall_r_defaults.get(climate_zone, 20)
WallRDefault(climate_zone) ==
    IF climate_zone \in {1, 2} THEN 13 ELSE 20

\* calculate_insulation(...)
calculate_insulation(length, width, wall_height, stories, climate_zone, ceiling_r_value, wall_r_value) ==
    LET ceiling_r == Or(ceiling_r_value, CeilingRDefault(climate_zone))
        wall_r == Or(wall_r_value, WallRDefault(climate_zone))
        ceiling_area == calculate_floor_area(length, width)
        wall_area == calculate_exterior_wall_area(length, width, wall_height, stories)
        net_wall_area == RatMul(wall_area, Rat(85, 100))
    IN  [ceiling_sqft |-> ceiling_area,
         ceiling_r_value |-> ceiling_r,
         wall_sqft |-> net_wall_area,
         wall_r_value |-> wall_r,
         ceiling_batts |-> Ceil(RatDivInt(ceiling_area, 40)),
         wall_batts |-> Ceil(RatDivInt(net_wall_area, 88))]

\* calculate_electrical(floor_area, stories)
calculate_electrical(floor_area, stories) ==
    LET total_area == RatMul(floor_area, FromInt(stories)) IN
    [outlets |-> MaxOfTwo(10, int(RatDivInt(total_area, 60))),
     switches |-> MaxOfTwo(5, int(RatDivInt(total_area, 150))),
     light_fixtures |-> MaxOfTwo(8, int(RatDivInt(total_area, 100))),
     wire_14_2_lf |-> int(RatMul(total_area, FromInt(2))),
     wire_12_2_lf |-> int(RatMul(total_area, Half)),
     breakers_15a |-> MaxOfTwo(6, int(RatDivInt(total_area, 500))),
     breakers_20a |-> MaxOfTwo(4, int(RatDivInt(total_area, 600))),
     panel_size_amps |-> IF RatLess(FromInt(2000), total_area) THEN 200 ELSE 100]

\* calculate_plumbing(bathrooms, kitchens)
calculate_plumbing(bathrooms, kitchens) ==
    LET toilets == bathrooms
        sinks == bathrooms + kitchens
        showers_tubs == bathrooms
        kitchen_sink == kitchens
        drain_rough_ins == toilets + sinks + showers_tubs + kitchen_sink
        water_rough_ins == drain_rough_ins * 2
    IN  [toilets |-> toilets,
         sinks |-> sinks,
         showers_tubs |-> showers_tubs,
         drain_rough_ins |-> drain_rough_ins,
         water_rough_ins |-> water_rough_ins,
         drain_pipe_lf |-> drain_rough_ins * 15,
         supply_pipe_lf |-> water_rough_ins * 20,
         water_heater |-> 1]

\* btu_per_sqft.get(climate_zone, 30)
BtuPerSqft(climate_zone) ==
    IF climate_zone \in {1, 2} THEN 25
    ELSE IF climate_zone = 3 THEN 22
    ELSE IF climate_zone = 4 THEN 20
    ELSE IF climate_zone = 5 THEN 35
    ELSE IF climate_zone = 6 THEN 40
    ELSE IF climate_zone = 7 THEN 45
    ELSE IF climate_zone = 8 THEN 50
    ELSE 30

\* The if-chain of calculate_hvac that picks the system size.
SystemSize(tons_ac) ==
    IF RatLeq(tons_ac, Rat(3, 2)) THEN Rat(3, 2)
    ELSE IF RatLeq(tons_ac, FromInt(2)) THEN FromInt(2)
    ELSE IF RatLeq(tons_ac, Rat(5, 2)) THEN Rat(5, 2)
    ELSE IF RatLeq(tons_ac, FromInt(3)) THEN FromInt(3)
    ELSE IF RatLeq(tons_ac, Rat(7, 2)) THEN Rat(7, 2)
    ELSE IF RatLeq(tons_ac, FromInt(4)) THEN FromInt(4)
    ELSE FromInt(5)

\* calculate_hvac(total_sqft, climate_zone)
calculate_hvac(total_sqft, climate_zone) ==
    LET btu_needed == RatMul(total_sqft, FromInt(BtuPerSqft(climate_zone)))
        tons_ac == RatDivInt(btu_needed, 12000)
        registers == MaxOfTwo(6, int(RatDivInt(total_sqft, 200)))
    IN  [btu_required |-> int(btu_needed),
         tonnage |-> SystemSize(tons_ac),
         duct_lf |-> int(RatMul(total_sqft, Half)),
         supply_registers |-> registers,
         return_registers |-> MaxOfTwo(2, registers \div 3)]

\* calculate_exterior_materials(...)
calculate_exterior_materials(length, width, wall_height, stories, exterior_type, window_count, door_count) ==
    LET wall_area == calculate_exterior_wall_area(length, width, wall_height, stories)
        window_area == window_count * 15
        door_area == door_count * 20
        net_wall_area == RatSub(RatSub(wall_area, FromInt(window_area)), FromInt(door_area))
        type == Lower(exterior_type)
        bricks == int(RatMul(RatMul(net_wall_area, FromInt(7)), Rat(105, 100)))
    IN  IF type \in {"vinyl siding", "wood siding", "fiber cement"}
        THEN [siding_squares |-> Ceil(RatMul(RatDivInt(net_wall_area, 100), Rat(110, 100))),
              net_wall_sqft |-> net_wall_area,
              trim_lf |-> RatMul(RatMul(calculate_perimeter(length, width),
                                        FromInt(stories)), FromInt(4)),
              corners |-> 4 * stories]
        ELSE IF type = "brick"
        THEN [bricks |-> bricks,
              mortar_bags |-> Ceil(Rat(bricks, 500)),
              net_wall_sqft |-> net_wall_area,
              wall_ties |-> int(RatMul(net_wall_area, Rat(3, 2)))]
        ELSE IF type \in {"stone", "stucco", "eifs"}
        THEN [coverage_sqft |-> net_wall_area, net_wall_sqft |-> net_wall_area]
        ELSE [net_wall_sqft |-> net_wall_area]

-----------------------------------------------------------------------------
(* One call of a quantity calculation, on arguments of the domain.         *)

Lengths == {FromInt(10), FromInt(40)}
Widths == {FromInt(10), Rat(61, 2)}
WallHeights == {FromInt(8)}
StoryCounts == {1, 2}

RoofStyles ==
    {"Flat", "FLAT", "flat", "Gable", "gable", "Hip", "HIP", "Mansard", "Gambrel",
     "Shed", "Butterfly", "Other", "Unknown", "Complex", ""}

\* Pitches whose multiplier is rational: 0, 5:12, 9:12, 16:12.
Pitches == {Zero, FromInt(5), FromInt(9), FromInt(16)}

FoundationTypes == {"slab", "Crawl", "basement", "pier"}
FooterWidths == {Zero, Rat(3, 2), FromInt(2)}
FooterDepths == {Zero, One, Rat(3, 2)}
SlabThicknesses == {Rat(33, 100)}

ClimateZones == 0..9
RValues == {NotSupplied, Supplied(0), Supplied(19), Supplied(60)}

FloorAreas == {FromInt(100), FromInt(600), Rat(2401, 2), FromInt(2500)}
Bathrooms == 0..3
Kitchens == 0..2
TotalSqfts ==
    {Zero, FromInt(500), FromInt(1000), FromInt(1500), FromInt(2000), FromInt(3000)}

ExteriorTypes == {"Vinyl Siding", "Brick", "Stucco", "Log"}
WindowCounts == {0, 10, 30}
DoorCounts == {0, 2}

Call(op, args) == [op |-> op, args |-> args, done |-> FALSE, result |-> None]

Calls ==
    {Call("calculate_roof_area",
          [length |-> l, width |-> w, roof_style |-> s, roof_pitch |-> p]) :
        l \in Lengths, w \in Widths, s \in RoofStyles, p \in Pitches}
    \cup
    {Call("calculate_foundation_concrete",
          [length |-> l, width |-> w, foundation_type |-> t, footer_width |-> fw,
           footer_depth |-> fd, slab_thickness |-> st]) :
        l \in Lengths, w \in Widths, t \in FoundationTypes, fw \in FooterWidths,
        fd \in FooterDepths, st \in SlabThicknesses}
    \cup
    {Call("calculate_insulation",
          [length |-> l, width |-> w, wall_height |-> h, stories |-> 1,
           climate_zone |-> z, ceiling_r_value |-> c, wall_r_value |-> r]) :
        l \in Lengths, w \in Widths, h \in WallHeights, z \in ClimateZones,
        c \in RValues, r \in RValues}
    \cup
    {Call("calculate_electrical", [floor_area |-> a, stories |-> n]) :
        a \in FloorAreas, n \in StoryCounts}
    \cup
    {Call("calculate_plumbing", [bathrooms |-> b, kitchens |-> k]) :
        b \in Bathrooms, k \in Kitchens}
    \cup
    {Call("calculate_hvac", [total_sqft |-> a, climate_zone |-> z]) :
        a \in TotalSqfts, z \in ClimateZones}
    \cup
    {Call("calculate_exterior_materials",
          [length |-> l, width |-> w, wall_height |-> h, stories |-> n,
           exterior_type |-> t, window_count |-> wc, door_count |-> dc]) :
        l \in Lengths, w \in Widths, h \in WallHeights, n \in StoryCounts,
        t \in ExteriorTypes, wc \in WindowCounts, dc \in DoorCounts}

InitTakeoff ==
    /\ client = FALSE
    /\ image_paths = <<>>
    /\ results = <<>>
    /\ combined = None
    /\ pc = "idle"
    /\ call \in Calls

\* The call op returns result.
Return(op, result) ==
    /\ call.op = op
    /\ ~call.done
    /\ call' = [call EXCEPT !.done = TRUE, !.result = result]
    /\ UNCHANGED <<client, image_paths, results, combined, pc>>

CalculateRoofArea ==
    Return("calculate_roof_area",
           calculate_roof_area(call.args.length, call.args.width,
                               call.args.roof_style, call.args.roof_pitch))

CalculateFoundationConcrete ==
    Return("calculate_foundation_concrete",
           calculate_foundation_concrete(
               call.args.length, call.args.width, call.args.foundation_type,
               call.args.footer_width, call.args.footer_depth,
               call.args.slab_thickness))

CalculateInsulation ==
    Return("calculate_insulation",
           calculate_insulation(
               call.args.length, call.args.width, call.args.wall_height,
               call.args.stories, call.args.climate_zone,
               call.args.ceiling_r_value, call.args.wall_r_value))

CalculateElectrical ==
    Return("calculate_electrical",
           calculate_electrical(call.args.floor_area, call.args.stories))

CalculatePlumbing ==
    Return("calculate_plumbing",
           calculate_plumbing(call.args.bathrooms, call.args.kitchens))

CalculateHvac ==
    Return("calculate_hvac",
           calculate_hvac(call.args.total_sqft, call.args.climate_zone))

CalculateExteriorMaterials ==
    Return("calculate_exterior_materials",
           calculate_exterior_materials(
               call.args.length, call.args.width, call.args.wall_height,
               call.args.stories, call.args.exterior_type,
               call.args.window_count, call.args.door_count))

NextTakeoff ==
    \/ CalculateRoofArea
    \/ CalculateFoundationConcrete
    \/ CalculateInsulation
    \/ CalculateElectrical
    \/ CalculatePlumbing
    \/ CalculateHvac
    \/ CalculateExteriorMaterials

TakeoffSpec == InitTakeoff /\ [][NextTakeoff]_vars

-----------------------------------------------------------------------------
(* AppState (src/ui/app_state.py): the image paths the user has selected.  *)
(* image_paths is AppState.image_paths; call is the last method called.    *)

\* Largest number of files picked in one file dialog.
MaxBatch == 2

\* add_image(path) on the list paths: the list afterwards
add_image(paths, path) == IF path \notin Range(paths) THEN Append(paths, path) ELSE paths

\* Mutant: add_images appends the whole batch.
add_images_extend(paths, batch) == paths \o batch

\* add_images(batch) on the list paths: the list afterwards
RECURSIVE add_images(_, _)
add_images(paths, batch) ==
    IF batch = <<>>
    THEN paths
    ELSE add_images(IF Head(batch) \notin Range(paths)
                    THEN Append(paths, Head(batch))
                    ELSE paths,
                    Tail(batch))

\* list.remove(path): the list without the first occurrence of path
RemoveFirst(paths, path) ==
    LET i == CHOOSE i \in 1..Len(paths) :
                 paths[i] = path /\ \A j \in 1..(i - 1) : paths[j] # path
    IN  SubSeq(paths, 1, i - 1) \o SubSeq(paths, i + 1, Len(paths))

\* remove_image(path) on the list paths: the list afterwards
remove_image(paths, path) ==
    IF path \in Range(paths) THEN RemoveFirst(paths, path) ELSE paths

\* clear_images(): the list afterwards
clear_images == <<>>

\* The files the user can pick.
Files == {ImagePath(i) : i \in 1..MaxImages}

\* The batches one file dialog can return.
Batches == UNION {[1..n -> Files] : n \in 0..MaxBatch}

InitAppState ==
    /\ client = FALSE
    /\ image_paths = <<>>
    /\ results = <<>>
    /\ combined = None
    /\ pc = "idle"
    /\ call = NoCall

AddImage ==
    \E path \in Files :
        /\ image_paths' = add_image(image_paths, path)
        /\ call' = [op |-> "add_image", args |-> [path |-> path]]
        /\ UNCHANGED <<client, results, combined, pc>>

\* _handle_select_images with a non-empty pick, or add_images called directly.
AddImages ==
    \E paths \in Batches :
        /\ image_paths' = add_images(image_paths, paths)
        /\ call' = [op |-> "add_images", args |-> [paths |-> paths]]
        /\ UNCHANGED <<client, results, combined, pc>>

RemoveImage ==
    \E path \in Files :
        /\ image_paths' = remove_image(image_paths, path)
        /\ call' = [op |-> "remove_image", args |-> [path |-> path]]
        /\ UNCHANGED <<client, results, combined, pc>>

ClearImages ==
    /\ image_paths' = clear_images
    /\ call' = [op |-> "clear_images", args |-> <<>>]
    /\ UNCHANGED <<client, results, combined, pc>>

NextAppState == AddImage \/ AddImages \/ RemoveImage \/ ClearImages

AppStateSpec == InitAppState /\ [][NextAppState]_vars

-----------------------------------------------------------------------------
(* Properties of analyze_multiple. They are stated on the per-image        *)
(* reports in `results` and on the returned report in `combined`, without  *)
(* the operators the merge itself is built from, wherever that is          *)
(* possible.                                                               *)

Returned == pc = "done"

\* The positions of the reports without an error.
ValidAt == {i \in 1..Len(results) : results[i].error = None}

\* The reports without an error, in input order.
WithoutErrors == SelectSeq(results, LAMBDA r : r.error = None)

\* i is the position of the valid report with the highest overall confidence,
\* the first such position.
IsBestAt(i) ==
    /\ i \in ValidAt
    /\ \A j \in ValidAt :
          RatLeq(results[j].overall_confidence, results[i].overall_confidence)
    /\ \A j \in ValidAt :
          j < i => RatLess(results[j].overall_confidence, results[i].overall_confidence)

CategoricalFields ==
    {"building_type", "architectural_style", "estimated_age", "condition",
     "roof_style", "roof_material", "roof_condition", "primary_exterior",
     "secondary_exterior", "exterior_color", "window_style", "window_material",
     "entry_door_material"}

PresenceFlags ==
    {"has_garage", "has_porch", "has_deck", "has_dormers", "has_chimney",
     "has_gutters", "has_storm_door"}

ConditionalFields ==
    {<<"has_garage", "garage_type">>, <<"has_porch", "porch_type">>,
     <<"has_deck", "deck_material">>}

\* C1: when at least one per-image report is valid, the reports that
\* analyze_multiple can return are exactly those it can return for the same
\* list with every error-flagged report removed, and the returned report is
\* one of them: error-flagged reports contribute to no field.
C1_ErrorsIgnored ==
    (Returned /\ ValidAt # {}) =>
        /\ Merged(results) = Merged(WithoutErrors)
        /\ combined \in Merged(WithoutErrors)

\* A merge of a list that mixes failed and valid reports has returned.
C1_Witness ==
    /\ Returned
    /\ ValidAt # {}
    /\ Len(WithoutErrors) < Len(results)
    /\ results[1].error # None
    /\ combined.error = None

\* C2: when the list is non-empty and every per-image report has an error,
\* the returned report is the first report, its error string unchanged,
\* whatever the errors of the later reports are.
C2_FirstErrorReturned ==
    (Returned /\ results # <<>> /\ ValidAt = {}) =>
        /\ combined = results[1]
        /\ combined.error = results[1].error

\* All reports failed, the first two with different errors, and the call returned.
C2_Witness ==
    /\ Returned
    /\ Len(results) >= 2
    /\ ValidAt = {}
    /\ results[1].error # results[2].error
    /\ combined.error = results[1].error

\* C3: analyze_multiple of an empty list returns a report whose error is
\* "No images provided" and whose every other field is the default, and no
\* per-image analysis has been made.
C3_EmptyListIsError ==
    (Returned /\ image_paths = <<>>) =>
        /\ combined.error = "No images provided"
        /\ [combined EXCEPT !.error = None] = PhotoAnalysisResult
        /\ results = <<>>

\* The call with an empty list has returned.
C3_Witness == Returned /\ image_paths = <<>> /\ combined.error # None

\* C4: the returned report has no error if and only if at least one
\* per-image report has no error; a partially-failed list yields a report
\* without an error.
C4_ErrorIffNoValid ==
    Returned => (combined.error = None <=> ValidAt # {})

\* A partially-failed list has been merged into a report without an error.
C4_Witness ==
    /\ Returned
    /\ ValidAt # {}
    /\ \E i \in 1..Len(results) : results[i].error # None
    /\ combined.error = None

\* C5: every single-valued categorical field of the returned report is the
\* value of the valid report with the highest overall confidence, the first
\* in input order among those that share the highest value.
C5_CategoricalFromBest ==
    (Returned /\ ValidAt # {}) =>
        \E i \in ValidAt :
            /\ IsBestAt(i)
            /\ \A f \in CategoricalFields : combined[f] = results[i][f]

\* Two valid reports tie for the highest confidence behind a less confident
\* one, differ in a categorical field, and the earlier of the two has won.
C5_Witness ==
    /\ Returned
    /\ Len(results) = 3
    /\ ValidAt = {1, 2, 3}
    /\ RatLess(results[1].overall_confidence, results[2].overall_confidence)
    /\ results[2].overall_confidence = results[3].overall_confidence
    /\ results[2].building_type # results[3].building_type
    /\ combined.building_type = results[2].building_type

\* C6: each presence flag of the returned report is true if and only if at
\* least one valid report has it true, also when the best report has it false.
C6_FlagsAreOr ==
    (Returned /\ ValidAt # {}) =>
        \A f \in PresenceFlags : combined[f] <=> (\E i \in ValidAt : results[i][f])

\* The best report has no garage, a less confident one has, and the merge has one.
C6_Witness ==
    /\ Returned
    /\ \E i \in ValidAt :
          /\ IsBestAt(i)
          /\ ~results[i].has_garage
          /\ \E j \in ValidAt : results[j].has_garage
    /\ combined.has_garage

\* C7: for garage_type, porch_type and deck_material: when the best report
\* has the feature the field is the best report's value; otherwise it is the
\* value of the first valid report that has the feature; and when no valid
\* report has the feature it is "None", whatever the best report carries.
C7_ConditionalFields ==
    (Returned /\ ValidAt # {}) =>
        \A c \in ConditionalFields :
            \E i \in ValidAt :
                /\ IsBestAt(i)
                /\ LET having == {j \in ValidAt : results[j][c[1]]}
                   IN  IF results[i][c[1]]
                       THEN combined[c[2]] = results[i][c[2]]
                       ELSE IF having # {}
                       THEN \E j \in having :
                               /\ \A k \in having : j <= k
                               /\ combined[c[2]] = results[j][c[2]]
                       ELSE combined[c[2]] = "None"

\* The best report has no garage yet carries a garage type; two later reports
\* have garages of different types; the merge has the type of the earlier one.
C7_Witness ==
    /\ Returned
    /\ Len(results) = 3
    /\ ValidAt = {1, 2, 3}
    /\ IsBestAt(1)
    /\ ~results[1].has_garage
    /\ results[1].garage_type # "None"
    /\ results[2].has_garage
    /\ results[3].has_garage
    /\ results[2].garage_type # results[3].garage_type
    /\ combined.garage_type = results[2].garage_type

\* C8: window_count, door_count and dormer_count of the returned report
\* are the sums over the valid reports, stories and garage_doors the maxima
\* (5 and 7 windows give 12; 1 and 2 stories give 2).
C8_SumsAndMaxes ==
    (Returned /\ ValidAt # {}) =>
        /\ \A f \in {"window_count", "door_count", "dormer_count"} :
              combined[f] = Sum(Field(WithoutErrors, f))
        /\ \A f \in {"stories", "garage_doors"} :
              /\ \E i \in ValidAt : combined[f] = results[i][f]
              /\ \A i \in ValidAt : combined[f] >= results[i][f]
        /\ (Field(WithoutErrors, "window_count") = <<5, 7>>) => combined.window_count = 12
        /\ (Field(WithoutErrors, "stories") = <<1, 2>>) => combined.stories = 2

\* Reports with 5 and 7 windows and with 1 and 2 stories have been merged.
C8_Witness ==
    /\ Returned
    /\ Field(WithoutErrors, "window_count") = <<5, 7>>
    /\ Field(WithoutErrors, "stories") = <<1, 2>>
    /\ combined.window_count = 12
    /\ combined.stories = 2

\* The fields a merge of one report does not copy from it.
NotCopiedFields ==
    {"raw_response", "special_features", "garage_type", "porch_type", "deck_material"}

\* C9 as stated: the merge of a single valid report equals that report in
\* every field, raw_response, the conditional fields and special_features
\* included.
C9_SingleReportUnchanged ==
    (Returned /\ Len(results) = 1 /\ ValidAt = {1}) => combined = results[1]

\* C9, amended: the merge of a single valid report equals that report in
\* every field except four kinds: raw_response is empty; garage_type,
\* porch_type and deck_material are the report's value when the report has
\* the feature and "None" when it has not; special_features holds the
\* report's features once each, in any order.
C9_SingleReportAmended ==
    (Returned /\ Len(results) = 1 /\ ValidAt = {1}) =>
        /\ DOMAIN combined = DOMAIN results[1]
        /\ \A f \in DOMAIN combined \ NotCopiedFields : combined[f] = results[1][f]
        /\ combined.raw_response = <<>>
        /\ \A c \in ConditionalFields :
              combined[c[2]] = IF results[1][c[1]] THEN results[1][c[2]] ELSE "None"
        /\ Range(combined.special_features) = Range(results[1].special_features)
        /\ Len(combined.special_features) = Cardinality(Range(combined.special_features))

\* A single valid report that carries a garage type without a garage, a
\* repeated special feature and its raw response has been merged.
C9_Witness ==
    /\ Returned
    /\ Len(results) = 1
    /\ ValidAt = {1}
    /\ ~results[1].has_garage
    /\ results[1].garage_type = "Detached"
    /\ combined.garage_type = "None"
    /\ results[1].raw_response # <<>>
    /\ Len(results[1].special_features) > Len(combined.special_features)
    /\ combined.building_type = results[1].building_type

\* C10: the returned overall_confidence is min(1, avg * (1 + 0.1 * (n - 1)))
\* for the mean avg of the n valid reports' overall confidences; it never
\* exceeds 1, it is the report's own confidence when n = 1, and two reports
\* of 0.6 give 0.66.
C10_OverallConfidence ==
    (Returned /\ ValidAt # {}) =>
        LET n == Len(WithoutErrors)
            total == RatSum(Field(WithoutErrors, "overall_confidence"))
            \* avg * (1 + 0.1 * (n - 1)) = total * (9 + n) / (10 * n)
            boosted == Rat(total.num * (9 + n), total.den * 10 * n)
        IN  /\ combined.overall_confidence = IF RatLess(One, boosted) THEN One ELSE boosted
            /\ RatLeq(combined.overall_confidence, One)
            /\ n = 1 => combined.overall_confidence = WithoutErrors[1].overall_confidence
            /\ Field(WithoutErrors, "overall_confidence") = <<Rat(6, 10), Rat(6, 10)>>
                  => combined.overall_confidence = Rat(66, 100)

\* Two valid reports of confidence 0.6 have been merged to 0.66.
C10_Witness ==
    /\ Returned
    /\ Field(WithoutErrors, "overall_confidence") = <<Rat(6, 10), Rat(6, 10)>>
    /\ combined.overall_confidence = Rat(66, 100)

\* C11: every categorical field of the returned report holds a value that
\* some valid report carries in that same field, or, for garage_type,
\* porch_type and deck_material only, "None"; so a field in which every valid
\* report has "Unknown" is "Unknown" in the returned report.
C11_NothingFabricated ==
    (Returned /\ ValidAt # {}) =>
        /\ \A f \in CategoricalFields :
              /\ \E i \in ValidAt : combined[f] = results[i][f]
              /\ (\A i \in ValidAt : results[i][f] = "Unknown") => combined[f] = "Unknown"
        /\ \A c \in ConditionalFields :
              \/ combined[c[2]] = "None"
              \/ \E i \in ValidAt : combined[c[2]] = results[i][c[2]]

\* Several valid reports, all with an Unknown building type and none with a
\* porch, have been merged: the type stays Unknown, the porch type is "None".
C11_Witness ==
    /\ Returned
    /\ Cardinality(ValidAt) >= 2
    /\ \A i \in ValidAt : results[i].building_type = "Unknown"
    /\ combined.building_type = "Unknown"
    /\ \E i \in 1..Len(results) :
          results[i].error = None /\ results[i].porch_type = "None"
    /\ combined.porch_type = "None"

\* The rank of a quality word: low 1, medium 2, high 3, any other word 0.
RankOfQuality(q) ==
    IF q = "high" THEN 3 ELSE IF q = "medium" THEN 2 ELSE IF q = "low" THEN 1 ELSE 0

\* C20: the returned photo_quality is the photo_quality of a valid report
\* of the highest rank (low 1, medium 2, high 3, every other word 0), and of
\* the first such report in input order.
C20_BestPhotoQuality ==
    (Returned /\ ValidAt # {}) =>
        \E i \in ValidAt :
            /\ \A j \in ValidAt :
                  RankOfQuality(results[j].photo_quality)
                      <= RankOfQuality(results[i].photo_quality)
            /\ \A j \in ValidAt :
                  j < i => RankOfQuality(results[j].photo_quality)
                               < RankOfQuality(results[i].photo_quality)
            /\ combined.photo_quality = results[i].photo_quality

\* Two valid reports with different unranked quality words have been merged
\* and the word of the earlier one is returned.
C20_Witness ==
    /\ Returned
    /\ Len(results) >= 2
    /\ \A i \in ValidAt : RankOfQuality(results[i].photo_quality) = 0
    /\ {1, 2} \subseteq ValidAt
    /\ results[1].photo_quality # results[2].photo_quality
    /\ combined.photo_quality = results[1].photo_quality

-----------------------------------------------------------------------------
(* Properties of analyze.                                                  *)

AnalyzeReturned == call.op = "analyze" /\ call.done

\* The call of analyze meets one of the failures: no client, no file, an
\* exception of the service call, a reply that is not JSON, or a JSON reply
\* that is not an object with object sections.
AnalyzeFails ==
    \/ ~client
    \/ call.args.outcome.kind \in {"missing", "raises"}
    \/ /\ call.args.outcome.kind = "reply"
       /\ \/ call.args.outcome.raw[1] # "json"
          \/ IsNull(call.args.outcome.raw[2])
          \/ \E k \in Sections :
                /\ k \in DOMAIN call.args.outcome.raw[2]
                /\ IsNull(call.args.outcome.raw[2][k])

\* C12: analyze never raises: it returns a report, whose error is set on
\* every failure (no client, file missing, exception of the service call,
\* reply that is not JSON, JSON of the wrong shape) and is None only when the
\* call succeeded and the reply parsed.
C12_AnalyzeNeverRaises ==
    AnalyzeReturned =>
        /\ DOMAIN call.result = DOMAIN PhotoAnalysisResult
        /\ AnalyzeFails <=> call.result.error # None

\* analyze has returned an error report for a JSON reply of the wrong shape.
C12_Witness ==
    /\ AnalyzeReturned
    /\ client
    /\ call.args.outcome.kind = "reply"
    /\ call.args.outcome.raw[1] = "json"
    /\ ParseRaises(call.args.outcome.raw[2])
    /\ call.result.error # None

-----------------------------------------------------------------------------
(* Properties of the quantity calculations.                                *)

\* The call of op has returned.
Done(op) == call.op = op /\ call.done

\* The entries of the quantity reports that are floats.
FloatEntries == {"net_wall_sqft", "coverage_sqft", "trim_lf"}

\* C13: no numeric entry of the exterior-materials report or of the plumbing
\* report is negative, whatever the window and door counts.
C13_NoNegativeEntry ==
    (Done("calculate_exterior_materials") \/ Done("calculate_plumbing")) =>
        \A k \in DOMAIN call.result :
            IF k \in FloatEntries THEN call.result[k].num >= 0 ELSE call.result[k] >= 0

\* The sizes of the ladder of calculate_hvac.
Ladder ==
    {Rat(3, 2), FromInt(2), Rat(5, 2), FromInt(3), Rat(7, 2), FromInt(4), FromInt(5)}

\* BTU / 12000 of the call of calculate_hvac.
Load ==
    RatDivInt(RatMul(call.args.total_sqft, FromInt(BtuPerSqft(call.args.climate_zone))),
              12000)

\* C14: the tonnage of calculate_hvac is the smallest size of the ladder that
\* is at least the computed load BTU/12000.
C14_TonnageRoundsUp ==
    Done("calculate_hvac") =>
        /\ call.result.tonnage \in Ladder
        /\ RatLeq(Load, call.result.tonnage)
        /\ \A size \in Ladder : RatLeq(Load, size) => RatLeq(call.result.tonnage, size)

\* C15: the R-values of calculate_insulation are the ones the caller
\* supplies, 0 included, and the defaults of the climate zone (38 and 20 for a
\* zone outside 1..8) when the caller supplies none.
C15_RValueOverride ==
    Done("calculate_insulation") =>
        /\ call.result.ceiling_r_value =
              IF call.args.ceiling_r_value # NotSupplied
              THEN call.args.ceiling_r_value[1]
              ELSE CeilingRDefault(call.args.climate_zone)
        /\ call.result.wall_r_value =
              IF call.args.wall_r_value # NotSupplied
              THEN call.args.wall_r_value[1]
              ELSE WallRDefault(call.args.climate_zone)
        /\ call.args.climate_zone \notin 1..8 =>
              /\ call.args.ceiling_r_value = NotSupplied =>
                    call.result.ceiling_r_value = 38
              /\ call.args.wall_r_value = NotSupplied => call.result.wall_r_value = 20

\* The floors of the electrical counts.
ElectricalFloors ==
    Done("calculate_electrical") =>
        /\ call.result.outlets >= 10
        /\ call.result.switches >= 5
        /\ call.result.light_fixtures >= 8
        /\ call.result.breakers_15a >= 6
        /\ call.result.breakers_20a >= 4

\* The floors of the HVAC register counts.
HvacFloors ==
    Done("calculate_hvac") =>
        /\ call.result.supply_registers >= 6
        /\ call.result.return_registers >= 2

\* C16 as stated: the electrical and HVAC counts have their floors and every
\* plumbing count is bounded below by a positive minimum.
C16_FloorsEverywhere ==
    /\ ElectricalFloors
    /\ HvacFloors
    /\ Done("calculate_plumbing") =>
          \A k \in DOMAIN call.result : call.result[k] >= 1

\* C16, amended: the electrical and HVAC counts have their floors; the
\* plumbing counts have none: they are linear in the bathrooms and kitchens
\* and are zero when those are, only water_heater being the constant 1.
C16_FloorsAmended ==
    /\ ElectricalFloors
    /\ HvacFloors
    /\ Done("calculate_plumbing") =>
          /\ call.result.toilets = call.args.bathrooms
          /\ call.result.showers_tubs = call.args.bathrooms
          /\ call.result.sinks = call.args.bathrooms + call.args.kitchens
          /\ call.result.drain_rough_ins =
                3 * call.args.bathrooms + 2 * call.args.kitchens
          /\ call.result.water_rough_ins = 2 * call.result.drain_rough_ins
          /\ call.result.drain_pipe_lf = 15 * call.result.drain_rough_ins
          /\ call.result.supply_pipe_lf = 20 * call.result.water_rough_ins
          /\ call.result.water_heater = 1

\* calculate_plumbing has returned zero toilets, sinks and showers for a
\* building without bathrooms and kitchens.
C16_Witness ==
    /\ Done("calculate_plumbing")
    /\ call.args.bathrooms = 0
    /\ call.args.kitchens = 0
    /\ call.result.toilets = 0
    /\ call.result.sinks = 0
    /\ call.result.showers_tubs = 0

\* The spellings of the flat style among the roof styles.
FlatSpellings == {"Flat", "FLAT", "flat"}

\* C17: for the style Flat, in any letter case, calculate_roof_area returns
\* length * width * 1.10, and the same area for every pitch.
C17_FlatRoof ==
    (Done("calculate_roof_area") /\ call.args.roof_style \in FlatSpellings) =>
        /\ call.result =
              RatMul(RatMul(call.args.length, call.args.width), Rat(110, 100))
        /\ \A pitch \in Pitches :
              calculate_roof_area(call.args.length, call.args.width,
                                  call.args.roof_style, pitch) = call.result

\* calculate_roof_area has returned 1.10 times the footprint for the style
\* "FLAT" at a pitch of 9:12.
C17_Witness ==
    /\ Done("calculate_roof_area")
    /\ call.args.roof_style = "FLAT"
    /\ call.args.roof_pitch = FromInt(9)
    /\ call.result = RatMul(RatMul(call.args.length, call.args.width), Rat(11, 10))

\* The factor C18 gives a style, on the spellings of RoofStyles.
FactorOfStyle(style) ==
    IF style \in {"Hip", "HIP"} THEN Rat(112, 100)
    ELSE IF style \in {"Mansard", "Gambrel"} THEN Rat(13, 10)
    ELSE IF style = "Shed" THEN Rat(95, 100)
    ELSE One

\* C18: for a roof that is not flat calculate_roof_area returns footprint *
\* pitch multiplier * style factor, the factor being 1.0 for Gable, 1.12 for
\* Hip, 1.3 for Mansard and Gambrel, 0.95 for Shed in any letter case, and
\* every other style gives the result of Gable (pitches with a rational
\* multiplier).
C18_PitchedRoof ==
    (Done("calculate_roof_area") /\ call.args.roof_style \notin FlatSpellings) =>
        /\ call.result =
              RatMul(RatMul(RatMul(call.args.length, call.args.width),
                            PitchMultiplier(call.args.roof_pitch)),
                     FactorOfStyle(call.args.roof_style))
        /\ call.args.roof_style \in {"Butterfly", "Other", "Unknown", "Complex", ""} =>
              call.result = calculate_roof_area(call.args.length, call.args.width,
                                                "Gable", call.args.roof_pitch)

\* calculate_roof_area has returned 13/12 of the footprint, the area of a
\* gable roof, for the style "Butterfly" at a pitch of 5:12.
C18_Witness ==
    /\ Done("calculate_roof_area")
    /\ call.args.roof_style = "Butterfly"
    /\ call.args.roof_pitch = FromInt(5)
    /\ call.result = RatMul(RatMul(call.args.length, call.args.width), Rat(13, 12))

\* The cubic yards of the call of calculate_foundation_concrete, were its
\* footer footer_width wide and footer_depth deep.
CubicYardsWith(footer_width, footer_depth) ==
    calculate_foundation_concrete(
        call.args.length, call.args.width, call.args.foundation_type,
        footer_width, footer_depth, call.args.slab_thickness)[1]

\* C19: the cubic yards of calculate_foundation_concrete do not decrease when
\* the footer gets wider or deeper, for every foundation type; a type that is
\* not recognised gives the volume of the footer alone.
C19_FoundationMonotone ==
    Done("calculate_foundation_concrete") =>
        /\ \A wider \in FooterWidths :
              RatLeq(call.args.footer_width, wider) =>
                  RatLeq(call.result[1], CubicYardsWith(wider, call.args.footer_depth))
        /\ \A deeper \in FooterDepths :
              RatLeq(call.args.footer_depth, deeper) =>
                  RatLeq(call.result[1], CubicYardsWith(call.args.footer_width, deeper))
        /\ call.args.foundation_type = "pier" =>
              call.result[1] =
                  RatDivInt(RatMul(RatMul(RatMul(FromInt(2),
                                                 RatAdd(call.args.length, call.args.width)),
                                          call.args.footer_width),
                                   call.args.footer_depth), 27)

\* calculate_foundation_concrete has returned, for a crawl space with a
\* footer 1.5 wide and 1 deep, less than it returns for a footer 2 wide and
\* less than for a footer 1.5 deep.
C19_Witness ==
    /\ Done("calculate_foundation_concrete")
    /\ call.args.foundation_type = "Crawl"
    /\ call.args.footer_width = Rat(3, 2)
    /\ call.args.footer_depth = One
    /\ RatLess(call.result[1], CubicYardsWith(FromInt(2), One))
    /\ RatLess(call.result[1], CubicYardsWith(Rat(3, 2), Rat(3, 2)))

-----------------------------------------------------------------------------
(* Further properties of analyze_multiple.                                 *)

\* C21: the merged special_features holds exactly the features that occur in
\* the special_features of some valid report, each once; features that differ
\* in letter case only are different features.
C21_FeaturesAreUnion ==
    (Returned /\ ValidAt # {}) =>
        /\ \A i \in ValidAt : \A k \in 1..Len(results[i].special_features) :
              \E m \in 1..Len(combined.special_features) :
                  combined.special_features[m] = results[i].special_features[k]
        /\ \A m \in 1..Len(combined.special_features) :
              \E i \in ValidAt : \E k \in 1..Len(results[i].special_features) :
                  results[i].special_features[k] = combined.special_features[m]
        /\ \A m, k \in 1..Len(combined.special_features) :
              combined.special_features[m] = combined.special_features[k] => m = k

\* A report that lists "Skylight" twice and a report that lists "skylight"
\* and "Skylight" have been merged to the two features, each once.
C21_Witness ==
    /\ Returned
    /\ \E i, j \in ValidAt :
          /\ results[i].special_features = <<"Skylight", "Skylight">>
          /\ results[j].special_features = <<"skylight", "Skylight">>
    /\ Len(combined.special_features) = 2
    /\ Range(combined.special_features) = {"skylight", "Skylight"}

\* The values the valid reports carry for a confidence category, in input
\* order.
CategoryValues(f) ==
    [k \in 1..Len(WithoutErrors) |-> WithoutErrors[k].field_confidence[f]]

\* C22: for each of the seven confidence categories, the merged
\* field_confidence value is the arithmetic mean of the valid reports' values
\* for that category (the exact sum divided by their number, rounded once to
\* a double), and lies between the smallest and the largest of those values.
C22_MeanOfCategory ==
    (Returned /\ ValidAt # {}) =>
        \A f \in Range(confidence_fields) :
            /\ combined.field_confidence[f] =
                  DoubleDivInt(ExactSum(CategoryValues(f)), Len(WithoutErrors))
            /\ \E i \in ValidAt :
                  DoubleLeq(results[i].field_confidence[f], combined.field_confidence[f])
            /\ \E i \in ValidAt :
                  DoubleLeq(combined.field_confidence[f], results[i].field_confidence[f])

\* The fields C23 says are the same whatever the order of the reports: the
\* categorical fields copied from the best report, the boolean flags, the
\* summed and the maxed counts, and the two confidences.
OrderFreeFields ==
    CategoricalFields \cup PresenceFlags
        \cup {"window_count", "door_count", "dormer_count", "stories", "garage_doors"}
        \cup {"field_confidence", "overall_confidence"}

\* The list of per-image reports in the order p, a permutation of its
\* positions.
Reordered(p) == [k \in 1..Len(results) |-> results[p[k]]]

\* C23: when the valid reports have pairwise distinct overall_confidence, the
\* report analyze_multiple returned and every report it returns, on the same
\* interpreter, for the same reports in another order agree on every
\* best-derived categorical field, every boolean flag, every summed and maxed
\* count, every per-category confidence and the overall confidence.
C23_OrderIndependent ==
    (/\ Returned
     /\ results # <<>>
     /\ \A i, j \in ValidAt :
           results[i].overall_confidence = results[j].overall_confidence => i = j) =>
        \A summation \in Summations :
            combined \in MergedOn(summation, results) =>
                \A p \in Permutations(1..Len(results)) :
                    \A other \in MergedOn(summation, Reordered(p)) :
                        \A f \in OrderFreeFields : other[f] = combined[f]

-----------------------------------------------------------------------------
(* Properties of AppState.                                                 *)

\* C24: whatever add_image, add_images, remove_image and clear_images calls
\* were made on an empty AppState, image_paths holds no path twice, and right
\* after remove_image(path) it does not hold path.
C24_NoPathTwice ==
    /\ \A i, j \in 1..Len(image_paths) : image_paths[i] = image_paths[j] => i = j
    /\ call.op = "remove_image" => call.args.path \notin Range(image_paths)

\* add_images has just been called with a batch that repeats a path, on a
\* list that holds another path: the list holds the two paths once each.
C24_Witness ==
    /\ call.op = "add_images"
    /\ call.args.paths = <<ImagePath(1), ImagePath(1)>>
    /\ image_paths = <<ImagePath(2), ImagePath(1)>>

====
